---- MODULE Spec2Model ----
(***************************************************************************)
(* Model of the wildfire alert engine (src/wildfire-detection/             *)
(* alert_processor.py): AlertProcessor.process_hotspot_for_alerts run by   *)
(* concurrent Lambda invocations against the shared FireAlerts table.      *)
(*                                                                         *)
(* Units.  Coordinates are integers in 1e-5 degree (34.0522 deg is         *)
(* 3405220).  Time is in whole seconds.  Distances handed to the           *)
(* classifier are whole kilometres; a missing distance (float('inf')) is   *)
(* the value Inf, larger than every threshold.                             *)
(***************************************************************************)
EXTENDS Integers, Sequences, FiniteSets, TLC

(***************************************************************************)
(* Bounds of the model.                                                    *)
(***************************************************************************)
MaxProcs == 2
MaxFine == 1
MaxAreas == 2

(***************************************************************************)
(* Program constants (AlertProcessor.__init__ and the query call).         *)
(***************************************************************************)
CRITICAL_CONFIDENCE_THRESHOLD == 85
HIGH_CONFIDENCE_THRESHOLD == 70
CRITICAL_DISTANCE_THRESHOLD == 5
HIGH_DISTANCE_THRESHOLD == 15
ALERT_SUPPRESSION_WINDOW == 30
QueryLimit == 50

Inf == 1000000
WindowSeconds == ALERT_SUPPRESSION_WINDOW * 60

Procs == 1..MaxProcs
NoValue == [kind |-> "None"]

(***************************************************************************)
(* min/abs as Python computes them on numbers.                             *)
(***************************************************************************)
Abs(x) == IF x < 0 THEN -x ELSE x

(***************************************************************************)
(* any(...) over a Python list of booleans.                                *)
(***************************************************************************)
AnyOf(conditions) == \E i \in DOMAIN conditions : conditions[i]

(***************************************************************************)
(* AlertProcessor._determine_alert_level.  An area is a record             *)
(* [priority, distance_km]; a missing distance_km is Inf.                  *)
(***************************************************************************)
critical_conditions_strict(confidence, threat_level, min_distance, affected_areas) ==
    << confidence > CRITICAL_CONFIDENCE_THRESHOLD /\ min_distance <= CRITICAL_DISTANCE_THRESHOLD,
       threat_level = "CRITICAL",
       \E i \in DOMAIN affected_areas :
           /\ affected_areas[i].priority = "CRITICAL"
           /\ affected_areas[i].distance_km <= CRITICAL_DISTANCE_THRESHOLD,
       confidence >= 90 /\ min_distance <= 10 >>

critical_conditions(confidence, threat_level, min_distance, affected_areas) ==
    << confidence >= CRITICAL_CONFIDENCE_THRESHOLD /\ min_distance <= CRITICAL_DISTANCE_THRESHOLD,
       threat_level = "CRITICAL",
       \E i \in DOMAIN affected_areas :
           /\ affected_areas[i].priority = "CRITICAL"
           /\ affected_areas[i].distance_km <= CRITICAL_DISTANCE_THRESHOLD,
       confidence >= 90 /\ min_distance <= 10 >>

high_conditions(confidence, threat_level, min_distance, affected_areas) ==
    << confidence >= HIGH_CONFIDENCE_THRESHOLD /\ min_distance <= HIGH_DISTANCE_THRESHOLD,
       threat_level = "HIGH",
       \E i \in DOMAIN affected_areas :
           /\ affected_areas[i].priority \in {"CRITICAL", "HIGH"}
           /\ affected_areas[i].distance_km <= HIGH_DISTANCE_THRESHOLD,
       confidence >= 80 /\ min_distance <= 20 >>

medium_conditions(confidence, threat_level, min_distance, affected_areas) ==
    << confidence >= 60 /\ min_distance <= 30,
       threat_level = "MEDIUM",
       Len(affected_areas) > 0 >>

determine_alert_level(confidence, threat_level, min_distance, affected_areas) ==
    IF AnyOf(critical_conditions(confidence, threat_level, min_distance, affected_areas))
    THEN "CRITICAL"
    ELSE IF AnyOf(high_conditions(confidence, threat_level, min_distance, affected_areas))
    THEN "HIGH"
    ELSE IF AnyOf(medium_conditions(confidence, threat_level, min_distance, affected_areas))
    THEN "MEDIUM"
    ELSE "NONE"

(***************************************************************************)
(* The FireAlerts table: a map from the hash key alert_id to the item.     *)
(* Items(table) is the set of stored items.                                *)
(***************************************************************************)
Items(table) == { table[id] : id \in DOMAIN table }

(***************************************************************************)
(* alerts_table.query on AlertLevelIndex (hash alert_level, range          *)
(* created_date, read in ascending range-key order): DynamoDB evaluates    *)
(* at most Limit items of the key, oldest first, and applies the           *)
(* FilterExpression to the items it evaluated.  An item is evaluated when  *)
(* fewer than Limit items of its level are strictly older.                 *)
(***************************************************************************)
query_alert_level_index_unfiltered(table, alert_level, cutoff_time) ==
    LET sameLevel == { a \in Items(table) : a.alert_level = alert_level }
    IN  { a \in sameLevel :
            Cardinality({ b \in sameLevel : b.created_date < a.created_date }) < QueryLimit }

query_alert_level_index(table, alert_level, cutoff_time) ==
    LET sameLevel == { a \in Items(table) : a.alert_level = alert_level }
        evaluated == { a \in sameLevel :
                         Cardinality({ b \in sameLevel : b.created_date < a.created_date })
                             < QueryLimit }
    IN  { a \in evaluated : a.created_date >= cutoff_time }

(***************************************************************************)
(* AlertProcessor._should_suppress_alert.  raises is the outcome of the    *)
(* query call (the store is unreachable); 0.02 degree is 2000 units.       *)
(***************************************************************************)
should_suppress_alert_fail_closed(lat, lon, alert_level, table, now, raises) ==
    IF raises
    THEN TRUE
    ELSE LET cutoff_time == now - WindowSeconds
         IN  \E alert \in query_alert_level_index(table, alert_level, cutoff_time) :
                 LET lat_diff == Abs(lat - alert.hotspot_location.latitude)
                     lon_diff == Abs(lon - alert.hotspot_location.longitude)
                 IN  lat_diff < 2000 /\ lon_diff < 2000

should_suppress_alert(lat, lon, alert_level, table, now, raises) ==
    IF raises
    THEN FALSE
    ELSE LET cutoff_time == now - WindowSeconds
         IN  \E alert \in query_alert_level_index(table, alert_level, cutoff_time) :
                 LET lat_diff == Abs(lat - alert.hotspot_location.latitude)
                     lon_diff == Abs(lon - alert.hotspot_location.longitude)
                 IN  lat_diff < 2000 /\ lon_diff < 2000

(***************************************************************************)
(* The '.4f' formatting of a coordinate in the alert id: the value rounded *)
(* to 1e-4 degree (10 units).                                              *)
(***************************************************************************)
Format4f(x) == (x + 5) \div 10

(***************************************************************************)
(* AlertProcessor._create_alert_record: the id and the status.             *)
(* notification_results is NoValue (Python None), an error map, or a map   *)
(* of channel outcomes; a map is truthy (it always holds a timestamp).     *)
(***************************************************************************)
alert_id_of(now, lat, lon) == << now, Format4f(lat), Format4f(lon) >>

alert_status(notification_results) ==
    IF notification_results.kind # "None" /\ notification_results.kind # "error"
    THEN "SENT"
    ELSE "FAILED"

create_alert_record(hotspot, alert_level, notification_results, now) ==
    [ alert_id |-> alert_id_of(now, hotspot.latitude, hotspot.longitude),
      alert_level |-> alert_level,
      created_date |-> now,
      hotspot_location |-> [latitude |-> hotspot.latitude, longitude |-> hotspot.longitude],
      notification_results |-> notification_results,
      status |-> alert_status(notification_results) ]

(***************************************************************************)
(* AlertProcessor._store_alert_record: put_item replaces the item with the *)
(* same key; a raising put_item is logged and swallowed.                   *)
(***************************************************************************)
store_alert_record(table, alert_record, raises) ==
    IF raises
    THEN table
    ELSE [ id \in DOMAIN table \cup {alert_record.alert_id} |->
             IF id = alert_record.alert_id THEN alert_record ELSE table[id] ]


(***************************************************************************)
(* NotificationSystem.send_critical_alert / send_high_priority_alert as    *)
(* the processor sees them: the channels each one tries, and the value it  *)
(* returns (an error map when it raised inside, else the set of channels   *)
(* that delivered).                                                        *)
(***************************************************************************)
notifier_for_critical_only(alert_level) ==
    IF alert_level = "CRITICAL" THEN "send_critical_alert" ELSE "none"

notifier_for(alert_level) ==
    IF alert_level = "CRITICAL" THEN "send_critical_alert"
    ELSE IF alert_level = "HIGH" THEN "send_high_priority_alert"
    ELSE "none"

channels_of(notifier) ==
    IF notifier = "send_critical_alert" THEN {"email", "sms", "slack"}
    ELSE IF notifier = "send_high_priority_alert" THEN {"email", "slack"}
    ELSE {}

notification_outcomes(notifier) ==
    IF notifier = "none"
    THEN { NoValue }
    ELSE { [kind |-> "error"] }
         \cup { [kind |-> "map", delivered |-> d] : d \in { {}, channels_of(notifier) } }

(***************************************************************************)
(* Control flow of process_hotspot_for_alerts after the classification     *)
(* (line 47) and after the suppression check (line 51).                    *)
(***************************************************************************)
after_classification_always_checks(alert_level) == "suppression"

after_classification(alert_level) ==
    IF alert_level = "NONE" THEN "done" ELSE "suppression"

after_suppression_check_always_notifies(suppress) == "notify"

after_suppression_check(suppress) ==
    IF suppress THEN "done" ELSE "notify"

(***************************************************************************)
(* State.                                                                  *)
(*   clock         datetime.utcnow(), in seconds                           *)
(*   alerts_table  the FireAlerts table                                    *)
(*   call          per invocation of process_hotspot_for_alerts: its       *)
(*                 position (pc), arguments, locals and return value       *)
(*   probe         argument and result of a function evaluated on its own  *)
(***************************************************************************)
VARIABLES clock, alerts_table, call, probe

vars == << clock, alerts_table, call, probe >>

(***************************************************************************)
(* Inputs of the invocations: hotspots around 34.0522, -118.2437.  LocB    *)
(* lies 0.021 degree east of LocA, LocA2 lies inside the 0.02 degree box   *)
(* of LocA and formats to another alert id.                                *)
(***************************************************************************)
LocA == [latitude |-> 3405220, longitude |-> -11824370]
LocA2 == [latitude |-> 3406720, longitude |-> -11822870]
LocB == [latitude |-> 3405220, longitude |-> -11822270]
Locations == {LocA, LocA2, LocB}

(***************************************************************************)
(* The detections handed to the invocations: one per alert level, each     *)
(* [confidence, threat_level, min_distance_km, affected_areas].            *)
(***************************************************************************)
Detections ==
    { [confidence |-> 90, threat_level |-> "LOW", min_distance_km |-> 3, affected_areas |-> << >>],
      [confidence |-> 75, threat_level |-> "LOW", min_distance_km |-> 12, affected_areas |-> << >>],
      [confidence |-> 65, threat_level |-> "LOW", min_distance_km |-> 25, affected_areas |-> << >>],
      [confidence |-> 40, threat_level |-> "LOW", min_distance_km |-> Inf, affected_areas |-> << >>] }

(***************************************************************************)
(* The instants at which the clock is read: around 0 and around one        *)
(* suppression window later.                                               *)
(***************************************************************************)
ClockPoints ==
    { k * WindowSeconds + f : k \in 0..1, f \in 0..MaxFine }

IdleCall ==
    [ pc |-> "idle",
      hotspot_data |-> [latitude |-> 0, longitude |-> 0, confidence |-> 0],
      threat_assessment |-> [threat_level |-> "LOW", min_distance_km |-> Inf],
      affected_areas |-> << >>,
      alert_level |-> "",
      query_raised |-> FALSE,
      suppress |-> FALSE,
      notifier |-> "none",
      notification_results |-> NoValue,
      alert_record |-> NoValue,
      put_raised |-> FALSE,
      result |-> NoValue ]

Init ==
    /\ clock = 0
    /\ alerts_table = << >>
    /\ call = [p \in Procs |-> IdleCall]
    /\ probe = NoValue

(***************************************************************************)
(* process_hotspot_for_alerts, lines 43-48: the call and its               *)
(* classification.  The arguments are well-formed (numeric latitude,       *)
(* longitude and confidence), so nothing raises into the outer handler of  *)
(* lines 83-85: the notifiers and _store_alert_record catch their own      *)
(* exceptions.                                                             *)
(***************************************************************************)
Classify(p) ==
    /\ call[p].pc = "idle"
    /\ \E l \in Locations, d \in Detections :
         LET h == [latitude |-> l.latitude, longitude |-> l.longitude,
                   confidence |-> d.confidence]
             ta == [threat_level |-> d.threat_level, min_distance_km |-> d.min_distance_km]
             areas == d.affected_areas
             alert_level == determine_alert_level(h.confidence, ta.threat_level,
                                                  ta.min_distance_km, areas)
         IN  call' = [call EXCEPT ![p] =
                 [@ EXCEPT !.pc = after_classification(alert_level),
                           !.hotspot_data = h,
                           !.threat_assessment = ta,
                           !.affected_areas = areas,
                           !.alert_level = alert_level,
                           !.result = IF after_classification(alert_level) = "done"
                                      THEN [alert_level |-> "NONE",
                                            message |-> "No alert required"]
                                      ELSE @ ]]
    /\ UNCHANGED << clock, alerts_table, probe >>

(***************************************************************************)
(* Lines 50-56: the suppression query against the table as it is now.      *)
(***************************************************************************)
CheckSuppression(p) ==
    /\ call[p].pc = "suppression"
    /\ \E raises \in BOOLEAN :
         LET suppress == should_suppress_alert(call[p].hotspot_data.latitude,
                                               call[p].hotspot_data.longitude,
                                               call[p].alert_level,
                                               alerts_table, clock, raises)
         IN  call' = [call EXCEPT ![p] =
                 [@ EXCEPT !.pc = after_suppression_check(suppress),
                           !.query_raised = raises,
                           !.suppress = suppress,
                           !.result = IF after_suppression_check(suppress) = "done"
                                      THEN [alert_level |-> call[p].alert_level,
                                            suppressed |-> TRUE,
                                            message |-> "Alert suppressed due to recent similar alert"]
                                      ELSE @ ]]
    /\ UNCHANGED << clock, alerts_table, probe >>

(***************************************************************************)
(* Lines 58-67: the notifier of the level is invoked and returns.          *)
(***************************************************************************)
Notify(p) ==
    /\ call[p].pc = "notify"
    /\ \E r \in notification_outcomes(notifier_for(call[p].alert_level)) :
         call' = [call EXCEPT ![p] =
                 [@ EXCEPT !.pc = "store",
                           !.notifier = notifier_for(call[p].alert_level),
                           !.notification_results = r ]]
    /\ UNCHANGED << clock, alerts_table, probe >>

(***************************************************************************)
(* Lines 69-81: the record is built, put and the call returns.  The two    *)
(* clock reads of _create_alert_record (alert_id, created_date) fall in    *)
(* the same second.                                                        *)
(***************************************************************************)
StoreAndReturn(p) ==
    /\ call[p].pc = "store"
    /\ \E raises \in BOOLEAN :
         LET alert_record == create_alert_record(call[p].hotspot_data, call[p].alert_level,
                                                 call[p].notification_results, clock)
         IN  /\ alerts_table' = store_alert_record(alerts_table, alert_record, raises)
             /\ call' = [call EXCEPT ![p] =
                    [@ EXCEPT !.pc = "done",
                              !.alert_record = alert_record,
                              !.put_raised = raises,
                              !.result = [alert_level |-> call[p].alert_level,
                                          notification_results |-> call[p].notification_results,
                                          alert_id |-> alert_record.alert_id,
                                          suppressed |-> FALSE] ]]
    /\ UNCHANGED << clock, probe >>

(***************************************************************************)
(* Time passes.                                                            *)
(***************************************************************************)
Tick ==
    /\ \E t \in ClockPoints : t > clock /\ clock' = t
    /\ UNCHANGED << alerts_table, call, probe >>

Next ==
    \/ \E p \in Procs : Classify(p)
    \/ \E p \in Procs : CheckSuppression(p)
    \/ \E p \in Procs : Notify(p)
    \/ \E p \in Procs : StoreAndReturn(p)
    \/ Tick

Spec == Init /\ [][Next]_vars


(***************************************************************************)
(* _determine_alert_level evaluated on its own: a hotspot confidence and   *)
(* an assessment on both sides of each threshold, to which the evaluation  *)
(* is handed a list of affected areas.                                     *)
(***************************************************************************)
ConfidenceValues == {59, 60, 69, 70, 79, 80, 84, 85, 89, 90}
DistanceValues == {5, 6, 10, 11, 15, 16, 20, 21, 30, 31, Inf}
ThreatLevels == {"LOW", "MEDIUM", "HIGH", "CRITICAL"}
AreaValues ==
    { [priority |-> pr, distance_km |-> d] :
        pr \in {"LOW", "HIGH", "CRITICAL"}, d \in {5, 6, 15, 16} }
AreaLists == UNION { [1..n -> AreaValues] : n \in 0..MaxAreas }

InitLevel ==
    /\ clock = 0
    /\ alerts_table = << >>
    /\ call = [p \in Procs |-> IdleCall]
    /\ probe \in { [ fn |-> "determine_alert_level",
                     confidence |-> c, threat_level |-> tl, min_distance |-> md,
                     affected_areas |-> << >>, done |-> FALSE, out |-> "" ] :
                   c \in ConfidenceValues, tl \in ThreatLevels,
                   md \in DistanceValues }

EvalLevel ==
    /\ probe.fn = "determine_alert_level"
    /\ ~probe.done
    /\ \E areas \in AreaLists :
         probe' = [probe EXCEPT !.done = TRUE,
                                !.affected_areas = areas,
                                !.out = determine_alert_level(probe.confidence, probe.threat_level,
                                                              probe.min_distance, areas)]
    /\ UNCHANGED << clock, alerts_table, call >>

NextLevel == EvalLevel

SpecLevel == InitLevel /\ [][NextLevel]_vars


(***************************************************************************)
(* The classification cascade as the specification words it.               *)
(***************************************************************************)
AreaWithin(areas, priorities, km) ==
    \E i \in 1..Len(areas) : areas[i].priority \in priorities /\ areas[i].distance_km <= km

CascadeLevel(confidence, threatLevel, minDistance, affectedAreas) ==
    CASE \/ (confidence >= 85 /\ minDistance <= 5)
         \/ threatLevel = "CRITICAL"
         \/ AreaWithin(affectedAreas, {"CRITICAL"}, 5)
         \/ (confidence >= 90 /\ minDistance <= 10) -> "CRITICAL"
      [] OTHER ->
    CASE \/ (confidence >= 70 /\ minDistance <= 15)
         \/ threatLevel = "HIGH"
         \/ AreaWithin(affectedAreas, {"CRITICAL", "HIGH"}, 15)
         \/ (confidence >= 80 /\ minDistance <= 20) -> "HIGH"
      [] OTHER ->
    CASE \/ (confidence >= 60 /\ minDistance <= 30)
         \/ threatLevel = "MEDIUM"
         \/ affectedAreas # << >> -> "MEDIUM"
      [] OTHER -> "NONE"

(***************************************************************************)
(* C9: for every confidence, assessment and list of affected areas,        *)
(* _determine_alert_level returns the first matching level of the ordered  *)
(* cascade CRITICAL, HIGH, MEDIUM, NONE with the thresholds of the         *)
(* specification.                                                          *)
(***************************************************************************)
C9_LevelIsFirstMatchOfCascade ==
    (probe.fn = "determine_alert_level" /\ probe.done)
        => probe.out = CascadeLevel(probe.confidence, probe.threat_level,
                                    probe.min_distance, probe.affected_areas)

(***************************************************************************)
(* A detection at the CRITICAL confidence boundary (85, 5 km) with a lower *)
(* assessment and only a HIGH area nearby has been classified CRITICAL.    *)
(***************************************************************************)
C9_Witness ==
    /\ probe.fn = "determine_alert_level"
    /\ probe.done
    /\ probe.confidence = 85
    /\ probe.min_distance = 5
    /\ probe.threat_level = "HIGH"
    /\ Len(probe.affected_areas) = 1
    /\ probe.affected_areas[1].priority = "HIGH"
    /\ probe.out = "CRITICAL"


(***************************************************************************)
(* _should_suppress_alert evaluated on its own against tables the          *)
(* processor can have written: a run of older alerts of the candidate's    *)
(* level (none, one less than the query limit, or the limit), and at most  *)
(* one further alert of some level, age and offset from the candidate.     *)
(***************************************************************************)
ProbeNow == 10 * WindowSeconds
ProbeAges == {0, 1, WindowSeconds, WindowSeconds + 1, 31 * 60}
ProbeOffsets ==
    { << 0, 0 >>, << 1999, 1999 >>, << 1790, 0 >>, << 2000, 0 >>,
      << 0, 2100 >>, << 0, -2100 >>, << 1500, -1500 >>, << 100000, 0 >> }
OldCounts == {0, QueryLimit - 1, QueryLimit}

DeliveredMap(alert_level) ==
    IF notifier_for(alert_level) = "none"
    THEN NoValue
    ELSE [kind |-> "map", delivered |-> channels_of(notifier_for(alert_level))]

OldAlerts(n, alert_level) ==
    { create_alert_record([latitude |-> LocB.latitude, longitude |-> LocB.longitude,
                           confidence |-> 90],
                          alert_level, DeliveredMap(alert_level),
                          ProbeNow - WindowSeconds - 60 * i) : i \in 1..n }

OtherAlerts ==
    { {} } \cup
    { { create_alert_record([latitude |-> LocA.latitude + off[1],
                             longitude |-> LocA.longitude + off[2],
                             confidence |-> 90],
                            lv, DeliveredMap(lv), ProbeNow - age) } :
        lv \in {"CRITICAL", "HIGH", "MEDIUM"}, age \in ProbeAges, off \in ProbeOffsets }

TableOf(records) ==
    [ id \in { r.alert_id : r \in records } |-> CHOOSE r \in records : r.alert_id = id ]

InitSuppress ==
    /\ clock = 0
    /\ alerts_table = << >>
    /\ call = [p \in Procs |-> IdleCall]
    /\ probe \in { [ fn |-> "should_suppress_alert",
                     latitude |-> LocA.latitude, longitude |-> LocA.longitude,
                     alert_level |-> lv, table |-> TableOf(OldAlerts(n, lv) \cup other),
                     now |-> ProbeNow, raises |-> raises,
                     done |-> FALSE, out |-> FALSE ] :
                   lv \in {"CRITICAL", "HIGH"}, n \in OldCounts,
                   other \in OtherAlerts, raises \in BOOLEAN }

EvalSuppress ==
    /\ probe.fn = "should_suppress_alert"
    /\ ~probe.done
    /\ probe' = [probe EXCEPT !.done = TRUE,
                              !.out = should_suppress_alert(probe.latitude, probe.longitude,
                                                            probe.alert_level, probe.table,
                                                            probe.now, probe.raises)]
    /\ UNCHANGED << clock, alerts_table, call >>

NextSuppress == EvalSuppress

SpecSuppress == InitSuppress /\ [][NextSuppress]_vars

(***************************************************************************)
(* Ground distance between two points near 34 N, in units of 10 m, from    *)
(* the coordinate deltas: 1e-5 degree of latitude is 1.112 m and of        *)
(* longitude 0.921 m there (Earth radius 6371 km).                         *)
(***************************************************************************)
Within2Km(dlat, dlon) ==
    LET north == (Abs(dlat) * 1112) \div 10000
        east == (Abs(dlon) * 921) \div 10000
    IN  north * north + east * east <= 200 * 200

(***************************************************************************)
(* The approximate proximity of the suppression rule: both coordinate      *)
(* deltas below 0.02 degree.                                               *)
(***************************************************************************)
NearCandidate(a, lat, lon) ==
    /\ Abs(a.hotspot_location.latitude - lat) < 2000
    /\ Abs(a.hotspot_location.longitude - lon) < 2000

ProbeEvaluated == probe.fn = "should_suppress_alert" /\ probe.done

(***************************************************************************)
(* C2: the suppression check returns true whenever the store holds a       *)
(* record of the candidate's level, created within the last 30 minutes,    *)
(* within 2 km of the candidate, whatever the direction of the offset and  *)
(* however many other records of that level the store holds.               *)
(***************************************************************************)
C2_SuppressedWheneverRecentSameLevelWithin2Km ==
    (ProbeEvaluated /\ ~probe.raises)
        => ( (\E a \in Items(probe.table) :
                 /\ a.alert_level = probe.alert_level
                 /\ a.created_date >= probe.now - WindowSeconds
                 /\ a.created_date <= probe.now
                 /\ Within2Km(a.hotspot_location.latitude - probe.latitude,
                              a.hotspot_location.longitude - probe.longitude))
             => probe.out )

(***************************************************************************)
(* C3: the suppression check returns true only if the store holds a record *)
(* of the candidate's level, created within the last 30 minutes, near the  *)
(* candidate; so not on an empty store, not when the nearby records have   *)
(* another level, not when the matching record is older than the window.   *)
(***************************************************************************)
C3_SuppressedOnlyIfRecentSameLevelNear ==
    (ProbeEvaluated /\ probe.out)
        => \E a \in Items(probe.table) :
               /\ a.alert_level = probe.alert_level
               /\ a.created_date >= probe.now - WindowSeconds
               /\ NearCandidate(a, probe.latitude, probe.longitude)

(***************************************************************************)
(* The check has answered false for a candidate whose only record at its   *)
(* own location and level is 31 minutes old.                               *)
(***************************************************************************)
C3_Witness ==
    /\ ProbeEvaluated
    /\ ~probe.raises
    /\ ~probe.out
    /\ Cardinality(DOMAIN probe.table) = 1
    /\ \E a \in Items(probe.table) :
           /\ a.alert_level = probe.alert_level
           /\ a.hotspot_location.latitude = probe.latitude
           /\ a.hotspot_location.longitude = probe.longitude
           /\ a.created_date = probe.now - 31 * 60


(***************************************************************************)
(* Properties of process_hotspot_for_alerts under Spec.                    *)
(***************************************************************************)
Fired(p) == call[p].pc \in {"store", "done"} /\ call[p].notifier # "none"

SameBucket(p, q) ==
    /\ call[p].alert_level = call[q].alert_level
    /\ Abs(call[p].hotspot_data.latitude - call[q].hotspot_data.latitude) < 2000
    /\ Abs(call[p].hotspot_data.longitude - call[q].hotspot_data.longitude) < 2000

(***************************************************************************)
(* C1: of two concurrent invocations on hotspots of the same alert level   *)
(* within the suppression proximity of each other, at most one sends a     *)
(* notification: never are both in flight past a successful suppression    *)
(* query, each having fired, before either has stored its record.          *)
(***************************************************************************)
C1_ConcurrentNearbyAlertsFireOnce ==
    \A p, q \in Procs :
        (p # q /\ SameBucket(p, q)
             /\ call[p].pc = "store" /\ call[q].pc = "store"
             /\ ~call[p].query_raised /\ ~call[q].query_raised)
            => ~(Fired(p) /\ Fired(q))

(***************************************************************************)
(* C4: when the suppression query raises, the candidate is not suppressed  *)
(* and the call goes on as for an unsuppressed candidate: it invokes the   *)
(* notifier of its level, stores the record and returns suppressed=False   *)
(* with no error.                                                          *)
(***************************************************************************)
C4_UnavailableStoreFailsOpen ==
    \A p \in Procs :
        call[p].query_raised =>
            /\ ~call[p].suppress
            /\ call[p].pc \in {"notify", "store", "done"}
            /\ call[p].pc \in {"store", "done"} =>
                   /\ call[p].notifier = notifier_for(call[p].alert_level)
                   /\ call[p].notification_results
                          \in notification_outcomes(call[p].notifier)
            /\ call[p].pc = "done" =>
                   /\ call[p].alert_record # NoValue
                   /\ DOMAIN call[p].result =
                          {"alert_level", "notification_results", "alert_id", "suppressed"}
                   /\ call[p].result.suppressed = FALSE
                   /\ call[p].result.alert_id = call[p].alert_record.alert_id

(***************************************************************************)
(* A CRITICAL call whose query raised has fired and returned although the  *)
(* table held a stored alert of its level at its location inside the       *)
(* window.                                                                 *)
(***************************************************************************)
C4_Witness ==
    \E p \in Procs :
        /\ call[p].query_raised
        /\ call[p].pc = "done"
        /\ call[p].notifier = "send_critical_alert"
        /\ \E a \in Items(alerts_table) :
               /\ a.alert_level = "CRITICAL"
               /\ a.alert_id # call[p].alert_record.alert_id
               /\ a.created_date < call[p].alert_record.created_date
               /\ a.created_date >= call[p].alert_record.created_date - WindowSeconds
               /\ NearCandidate(a, call[p].hotspot_data.latitude,
                                call[p].hotspot_data.longitude)

(***************************************************************************)
(* C5: a call that suppresses its candidate triggers no notification:      *)
(* neither notifier is invoked during it.                                  *)
(***************************************************************************)
C5_SuppressedCallNotifiesNobody ==
    \A p \in Procs :
        call[p].suppress =>
            /\ call[p].pc = "done"
            /\ call[p].notifier = "none"
            /\ call[p].notification_results = NoValue
            /\ call[p].result.suppressed = TRUE

(***************************************************************************)
(* A HIGH candidate has been suppressed and its call has returned.         *)
(***************************************************************************)
C5_Witness ==
    \E p \in Procs :
        call[p].suppress /\ call[p].pc = "done" /\ call[p].alert_level = "HIGH"

(***************************************************************************)
(* C6: a suppressed candidate still gets an alert record tagged SUPPRESSED *)
(* written to the store.                                                   *)
(***************************************************************************)
C6_SuppressedCandidateIsRecorded ==
    \A p \in Procs :
        (call[p].suppress /\ call[p].pc = "done") =>
            \E a \in Items(alerts_table) :
                /\ a.status = "SUPPRESSED"
                /\ a.alert_level = call[p].alert_level
                /\ a.hotspot_location.latitude = call[p].hotspot_data.latitude
                /\ a.hotspot_location.longitude = call[p].hotspot_data.longitude

(***************************************************************************)
(* C7: every candidate of level CRITICAL, HIGH or MEDIUM that is not       *)
(* suppressed gets an alert record and is handed to the notification       *)
(* system.                                                                 *)
(***************************************************************************)
C7_UnsuppressedIsRecordedAndNotified ==
    \A p \in Procs :
        (call[p].pc = "done" /\ call[p].alert_level \in {"CRITICAL", "HIGH", "MEDIUM"}
             /\ ~call[p].suppress)
            => /\ call[p].alert_record # NoValue
               /\ call[p].notifier # "none"

(***************************************************************************)
(* C7 as the code has it: a non-suppressed CRITICAL or HIGH candidate is   *)
(* handed to the notifier of its level, a MEDIUM one to none; for all      *)
(* three an alert record of the candidate is built, put_item is attempted  *)
(* and its id returned, and the id is in the store unless put_item raised. *)
(***************************************************************************)
C7_UnsuppressedIsRecordedAndHighOrCriticalNotified ==
    \A p \in Procs :
        (call[p].pc = "done" /\ call[p].alert_level \in {"CRITICAL", "HIGH", "MEDIUM"}
             /\ ~call[p].suppress)
            => /\ call[p].alert_record # NoValue
               /\ call[p].alert_record.alert_level = call[p].alert_level
               /\ call[p].alert_record.hotspot_location.latitude = call[p].hotspot_data.latitude
               /\ call[p].alert_record.hotspot_location.longitude = call[p].hotspot_data.longitude
               /\ call[p].result.alert_id = call[p].alert_record.alert_id
               /\ ~call[p].put_raised => call[p].alert_record.alert_id \in DOMAIN alerts_table
               /\ call[p].alert_level = "CRITICAL" => call[p].notifier = "send_critical_alert"
               /\ call[p].alert_level = "HIGH" => call[p].notifier = "send_high_priority_alert"
               /\ call[p].alert_level = "MEDIUM" => call[p].notifier = "none"
               /\ call[p].notification_results = call[p].alert_record.notification_results

(***************************************************************************)
(* A HIGH candidate has passed a successful suppression query, been handed *)
(* to send_high_priority_alert and is in the store.                        *)
(***************************************************************************)
C7_Witness ==
    \E p \in Procs :
        /\ call[p].pc = "done"
        /\ call[p].alert_level = "HIGH"
        /\ ~call[p].suppress
        /\ ~call[p].query_raised
        /\ call[p].notifier = "send_high_priority_alert"
        /\ ~call[p].put_raised
        /\ call[p].alert_record.alert_id \in DOMAIN alerts_table

(***************************************************************************)
(* C8: a call whose classification is NONE creates no alert: the step that *)
(* classifies it returns at once, leaving the store unchanged and no       *)
(* notifier invoked, and the call takes no further step.                   *)
(***************************************************************************)
C8_NoneCreatesNoAlert ==
    [][ \A p \in Procs :
          (call'[p].alert_level = "NONE" /\ call'[p] # call[p])
              => /\ call[p].pc = "idle"
                 /\ call'[p].pc = "done"
                 /\ alerts_table' = alerts_table
                 /\ call'[p].notifier = "none"
                 /\ call'[p].alert_record = NoValue
                 /\ call'[p].result = [alert_level |-> "NONE", message |-> "No alert required"]
      ]_vars

(***************************************************************************)
(* A call classified NONE has returned while another call's alert is in    *)
(* the store.                                                              *)
(***************************************************************************)
C8_Witness ==
    \E p \in Procs :
        /\ call[p].alert_level = "NONE"
        /\ call[p].pc = "done"
        /\ alerts_table # << >>

(***************************************************************************)
(* C10: SUPPRESSED, SENT and FAILED are terminal: once a stored alert      *)
(* record carries one of them, no later operation changes that record's    *)
(* status.                                                                 *)
(***************************************************************************)
C10_TerminalStatusNeverChanges ==
    [][ \A id \in DOMAIN alerts_table :
          alerts_table[id].status \in {"SUPPRESSED", "SENT", "FAILED"}
              => /\ id \in DOMAIN alerts_table'
                 /\ alerts_table'[id].status = alerts_table[id].status
      ]_vars

(***************************************************************************)
(* src/tools/threat_tools.py: ThreatAssessmentEngine and the tools built   *)
(* on it.                                                                  *)
(*                                                                         *)
(* Units.  All points of this part lie on one meridian (equal longitude),  *)
(* and a latitude is counted in metres of arc along it, so the haversine   *)
(* formula of calculate_distance gives R * |dlat| = |lat2 - lat1| metres.  *)
(* Unrounded distances and radii are in metres; a multiplier is in tenths; *)
(* the computed threat score is the exact rational num / den; a returned   *)
(* (rounded) score is in hundredths and a returned distance_km in          *)
(* hundredths of a km.  A raw coordinate is [ok, v]: float() raises on it  *)
(* when ok is FALSE.                                                       *)
(***************************************************************************)
Num(n) == [ok |-> TRUE, v |-> n]

Malformed == [ok |-> FALSE, v |-> 0]

float_raises(x) == ~x.ok

float_of(x) == x.v

(* Python's round(): to the nearest, ties to even; num >= 0, den > 0.      *)
RoundHalfEven(num, den) ==
    LET q == num \div den
        r == num % den
    IN  IF 2 * r < den THEN q
        ELSE IF 2 * r > den THEN q + 1
        ELSE IF q % 2 = 0 THEN q ELSE q + 1

asset_types ==
    [ residential             |-> [threat_multiplier |-> 10, evacuation_radius |-> 5000],
      commercial              |-> [threat_multiplier |-> 8,  evacuation_radius |-> 3000],
      industrial              |-> [threat_multiplier |-> 12, evacuation_radius |-> 8000],
      critical_infrastructure |-> [threat_multiplier |-> 20, evacuation_radius |-> 10000],
      healthcare              |-> [threat_multiplier |-> 15, evacuation_radius |-> 7000],
      school                  |-> [threat_multiplier |-> 13, evacuation_radius |-> 6000],
      airport                 |-> [threat_multiplier |-> 18, evacuation_radius |-> 12000],
      power_plant             |-> [threat_multiplier |-> 25, evacuation_radius |-> 15000],
      wildlife_refuge         |-> [threat_multiplier |-> 5,  evacuation_radius |-> 2000],
      forest                  |-> [threat_multiplier |-> 3,  evacuation_radius |-> 1000] ]

fire_intensity_levels ==
    [ low      |-> [spread_rate |-> 1,  threat_multiplier |-> 5],
      moderate |-> [spread_rate |-> 3,  threat_multiplier |-> 10],
      high     |-> [spread_rate |-> 6,  threat_multiplier |-> 15],
      extreme  |-> [spread_rate |-> 10, threat_multiplier |-> 20] ]

(* self.asset_types.get(asset_type, self.asset_types['residential'])       *)
asset_config_of(asset_type) ==
    IF asset_type \in DOMAIN asset_types
    THEN asset_types[asset_type]
    ELSE asset_types["residential"]

(* self.fire_intensity_levels.get(fire_confidence, ...['moderate'])        *)
fire_config_of(fire_confidence) ==
    IF fire_confidence \in DOMAIN fire_intensity_levels
    THEN fire_intensity_levels[fire_confidence]
    ELSE fire_intensity_levels["moderate"]

calculate_distance(lat1, lon1, lat2, lon2) == Abs(lat2 - lat1)

(* threat_score = (100.0 / max(distance, 0.1)) * asset multiplier          *)
(*                * fire multiplier * (1 + population / 1000)              *)
(*              = threat_score_num / threat_score_den                      *)
threat_score_num(asset_type, fire_confidence, asset_population) ==
    asset_config_of(asset_type).threat_multiplier
        * fire_config_of(fire_confidence).threat_multiplier
        * (1000 + asset_population)

MinDistance == 100

threat_score_den_wide_floor(distance) ==
    IF distance > 20 * MinDistance THEN distance ELSE 20 * MinDistance

threat_score_den(distance) == IF distance > MinDistance THEN distance ELSE MinDistance

threat_level_of_inclusive(num, den) ==
    IF num >= 50 * den THEN "CRITICAL"
    ELSE IF num >= 25 * den THEN "HIGH"
    ELSE IF num >= 10 * den THEN "MODERATE"
    ELSE "LOW"

threat_level_of(num, den) ==
    IF num > 50 * den THEN "CRITICAL"
    ELSE IF num > 25 * den THEN "HIGH"
    ELSE IF num > 10 * den THEN "MODERATE"
    ELSE "LOW"

(* The dictionary of the except branch, read with the defaults the callers *)
(* use (.get('threat_score', 0), .get('evacuation_needed', False)).        *)
error_assessment(fire_data, asset_data) ==
    [ error                |-> TRUE,
      fire_id              |-> fire_data.id,
      asset_id             |-> asset_data.id,
      asset_type           |-> asset_data.asset_type,
      distance_km          |-> 0,
      threat_score         |-> 0,
      threat_level         |-> "UNKNOWN",
      evacuation_needed    |-> FALSE,
      evacuation_radius_km |-> 0,
      asset_population   |-> 0,
      fire_confidence      |-> fire_data.confidence ]

assess_fire_threat(fire_data, asset_data) ==
    IF \/ float_raises(fire_data.latitude)
       \/ float_raises(fire_data.longitude)
       \/ float_raises(asset_data.latitude)
       \/ float_raises(asset_data.longitude)
    THEN error_assessment(fire_data, asset_data)
    ELSE
      LET distance == calculate_distance(float_of(fire_data.latitude),
                                         float_of(fire_data.longitude),
                                         float_of(asset_data.latitude),
                                         float_of(asset_data.longitude))
          num == threat_score_num(asset_data.asset_type, fire_data.confidence,
                                  asset_data.population)
          den == threat_score_den(distance)
          evacuation_radius == asset_config_of(asset_data.asset_type).evacuation_radius
      IN  [ error                |-> FALSE,
            fire_id              |-> fire_data.id,
            asset_id             |-> asset_data.id,
            asset_type           |-> asset_data.asset_type,
            distance_km          |-> RoundHalfEven(distance, 10),
            threat_score         |-> RoundHalfEven(100 * num, den),
            threat_level         |-> threat_level_of(num, den),
            evacuation_needed    |-> distance <= evacuation_radius,
            evacuation_radius_km |-> evacuation_radius,
            asset_population   |-> asset_data.population,
            fire_confidence      |-> fire_data.confidence ]

(***************************************************************************)
(* assess_fire_threat on its own: one fire, assessed against one asset     *)
(* after another.  probe.assessed keeps each asset with the dictionary     *)
(* returned for it.                                                        *)
(***************************************************************************)
MaxAssessed == 2

FireConfidences == {"low", "nominal", "high", "extreme"}

FireValues ==
    { [id |-> "unknown", latitude |-> Num(0), longitude |-> Num(0), confidence |-> c]
        : c \in FireConfidences }
    \cup { [id |-> "unknown", latitude |-> Malformed, longitude |-> Num(0),
            confidence |-> "nominal"] }

AssetLatitudes == {50, 100, 2000, 2001, 4000, 10000, 19999, 20000}

AssetTypeValues == {"residential", "power_plant", "forest"}

PopulationValues == {0, 3000}

AssetValues ==
    { [id |-> "unknown", latitude |-> Num(lat), longitude |-> Num(0),
       asset_type |-> t, population |-> n]
        : lat \in AssetLatitudes, t \in AssetTypeValues, n \in PopulationValues }
    \cup { [id |-> "unknown", latitude |-> Malformed, longitude |-> Num(0),
            asset_type |-> "residential", population |-> 0] }

InitThreat ==
    /\ clock = 0
    /\ alerts_table = << >>
    /\ call = [p \in Procs |-> IdleCall]
    /\ probe \in { [ fn |-> "assess_fire_threat", fire_data |-> f, assessed |-> << >> ]
                     : f \in FireValues }

EvalThreat ==
    /\ probe.fn = "assess_fire_threat"
    /\ Len(probe.assessed) < MaxAssessed
    /\ \E asset_data \in AssetValues :
         probe' = [probe EXCEPT !.assessed =
                      Append(@, [ asset_data |-> asset_data,
                                  out |-> assess_fire_threat(probe.fire_data, asset_data) ])]
    /\ UNCHANGED << clock, alerts_table, call >>

NextThreat == EvalThreat

SpecThreat == InitThreat /\ [][NextThreat]_vars

(* The entries of probe.assessed whose score was computed (no exception).  *)
Scored == { i \in DOMAIN probe.assessed : ~probe.assessed[i].out.error }

DistanceAt(i) ==
    Abs(float_of(probe.assessed[i].asset_data.latitude) - float_of(probe.fire_data.latitude))

ScoreNumAt(i) ==
    threat_score_num(probe.assessed[i].asset_data.asset_type, probe.fire_data.confidence,
                     probe.assessed[i].asset_data.population)

ScoreDenAt(i) == threat_score_den(DistanceAt(i))

(* n1 / m1 < n2 / m2, compared by integer part and remainder.              *)
RatLess(n1, m1, n2, m2) ==
    \/ n1 \div m1 < n2 \div m2
    \/ /\ n1 \div m1 = n2 \div m2
       /\ (n1 % m1) * m2 < (n2 % m2) * m1

LevelByStrictThresholds(num, den, third) ==
    IF num > 50 * den THEN "CRITICAL"
    ELSE IF num > 25 * den THEN "HIGH"
    ELSE IF num > 10 * den THEN third
    ELSE "LOW"

(***************************************************************************)
(* C11 as stated: assess_fire_threat maps the computed score to a level by *)
(* strict thresholds: above 50 CRITICAL, else above 25 HIGH, else above 10 *)
(* MEDIUM, else LOW; a score of exactly 50, 25 or 10 falls in the lower    *)
(* bucket.                                                                 *)
(***************************************************************************)
C11_LevelByStrictThresholdsMedium ==
    \A i \in Scored :
        probe.assessed[i].out.threat_level
            = LevelByStrictThresholds(ScoreNumAt(i), ScoreDenAt(i), "MEDIUM")

(***************************************************************************)
(* C11 amended: the same strict thresholds, the level between 10 and 25    *)
(* being named MODERATE: above 50 CRITICAL, else above 25 HIGH, else above *)
(* 10 MODERATE, else LOW; exactly 50, 25 or 10 falls in the lower bucket.  *)
(***************************************************************************)
C11_LevelByStrictThresholdsModerate ==
    \A i \in Scored :
        probe.assessed[i].out.threat_level
            = LevelByStrictThresholds(ScoreNumAt(i), ScoreDenAt(i), "MODERATE")

(***************************************************************************)
(* One assessment scored exactly 50 and was returned HIGH, another scored  *)
(* between 10 and 25 and was returned MODERATE.                            *)
(***************************************************************************)
C11_Witness ==
    /\ \E i \in Scored :
         /\ ScoreNumAt(i) = 50 * ScoreDenAt(i)
         /\ probe.assessed[i].out.threat_level = "HIGH"
    /\ \E j \in Scored :
         /\ ScoreNumAt(j) > 10 * ScoreDenAt(j)
         /\ ScoreNumAt(j) < 25 * ScoreDenAt(j)
         /\ probe.assessed[j].out.threat_level = "MODERATE"

(***************************************************************************)
(* C12: in the assessments returned by assess_fire_threat, threat_level is *)
(* a function of the returned threat_score: two assessments with equal     *)
(* threat_score have the same threat_level.                                *)
(***************************************************************************)
C12_EqualReturnedScoreSameLevel ==
    \A i, j \in DOMAIN probe.assessed :
        probe.assessed[i].out.threat_score = probe.assessed[j].out.threat_score
            => probe.assessed[i].out.threat_level = probe.assessed[j].out.threat_level

SameAssetButDistance(i, j) ==
    /\ probe.assessed[i].asset_data.asset_type = probe.assessed[j].asset_data.asset_type
    /\ probe.assessed[i].asset_data.population = probe.assessed[j].asset_data.population

(***************************************************************************)
(* C13 as stated: with asset type, fire confidence and population fixed,   *)
(* the computed score strictly decreases as the distance increases:        *)
(* d1 < d2 implies score(d1) > score(d2).                                  *)
(***************************************************************************)
C13_ScoreStrictlyDecreasesWithDistance ==
    \A i, j \in Scored :
        (SameAssetButDistance(i, j) /\ DistanceAt(i) < DistanceAt(j))
            => RatLess(ScoreNumAt(j), ScoreDenAt(j), ScoreNumAt(i), ScoreDenAt(i))

(***************************************************************************)
(* C13 amended: with asset type, fire confidence and population fixed,     *)
(* the computed score never increases with the distance, and strictly      *)
(* decreases once the larger distance exceeds the 0.1 km floor; the        *)
(* returned (rounded) threat_score never increases with the distance.      *)
(***************************************************************************)
C13_ScoreDecreasesBeyondFloor ==
    \A i, j \in Scored :
        (SameAssetButDistance(i, j) /\ DistanceAt(i) < DistanceAt(j))
            => /\ ~RatLess(ScoreNumAt(i), ScoreDenAt(i), ScoreNumAt(j), ScoreDenAt(j))
               /\ DistanceAt(j) > MinDistance
                    => RatLess(ScoreNumAt(j), ScoreDenAt(j), ScoreNumAt(i), ScoreDenAt(i))
               /\ probe.assessed[i].out.threat_score >= probe.assessed[j].out.threat_score

(***************************************************************************)
(* The same asset was assessed at 2000 m and at 2001 m, one metre apart    *)
(* beyond the floor.                                                       *)
(***************************************************************************)
C13_Witness ==
    \E i, j \in Scored :
        /\ SameAssetButDistance(i, j)
        /\ DistanceAt(i) = 2000
        /\ DistanceAt(j) = 2001

(***************************************************************************)
(* list.sort(key=..., reverse=...): a stable sort.  key[i] is the key of   *)
(* seq[i]; an element goes ahead of another when its key is strictly       *)
(* ahead, and elements of equal key keep their input order.                *)
(***************************************************************************)
sort_by_key_ties_reversed(seq, key, reverse) ==
    LET ahead(j, i) ==
            \/ IF reverse THEN key[j] > key[i] ELSE key[j] < key[i]
            \/ key[j] = key[i] /\ j > i
        pos(i) == 1 + Cardinality({ j \in DOMAIN seq : ahead(j, i) })
    IN  [ p \in DOMAIN seq |-> seq[CHOOSE i \in DOMAIN seq : pos(i) = p] ]

sort_by_key(seq, key, reverse) ==
    LET ahead(j, i) ==
            \/ IF reverse THEN key[j] > key[i] ELSE key[j] < key[i]
            \/ key[j] = key[i] /\ j < i
        pos(i) == 1 + Cardinality({ j \in DOMAIN seq : ahead(j, i) })
    IN  [ p \in DOMAIN seq |-> seq[CHOOSE i \in DOMAIN seq : pos(i) = p] ]

(* The (hotspot, asset) pairs in the order of the nested loops.            *)
pair_scan(hotspots, assets) ==
    [ k \in 1 .. (Len(hotspots) * Len(assets)) |->
        [ hotspot |-> hotspots[((k - 1) \div Len(assets)) + 1],
          asset   |-> assets[((k - 1) % Len(assets)) + 1] ] ]

within_cutoff_exclusive(distance, max_distance_km) == distance < max_distance_km

within_cutoff(distance, max_distance_km) == distance <= max_distance_km

(* float() of a coordinate raises in the loops: every hotspot's            *)
(* coordinates are converted, every asset's once there is a hotspot.       *)
scan_raises(hotspots, assets) ==
    \/ \E i \in DOMAIN hotspots :
         float_raises(hotspots[i].latitude) \/ float_raises(hotspots[i].longitude)
    \/ /\ hotspots # << >>
       /\ \E j \in DOMAIN assets :
            float_raises(assets[j].latitude) \/ float_raises(assets[j].longitude)

asset_threats_result_counting_clock(threat_assessments, max_distance_km, now) ==
    [ error             |-> FALSE,
      timestamp         |-> now,
      max_distance_km   |-> max_distance_km,
      total_assessments |-> Len(threat_assessments) + now,
      summary           |-> NoValue,
      assessments       |-> threat_assessments ]

asset_threats_result(threat_assessments, max_distance_km, now) ==
    LET count_level(level) ==
            Cardinality({ k \in DOMAIN threat_assessments :
                            threat_assessments[k].threat_level = level })
        evacuation_count ==
            Cardinality({ k \in DOMAIN threat_assessments :
                            threat_assessments[k].evacuation_needed })
    IN  [ error             |-> FALSE,
          timestamp         |-> now,
          max_distance_km   |-> max_distance_km,
          total_assessments |-> Len(threat_assessments),
          summary           |-> [ critical_threats  |-> count_level("CRITICAL"),
                                  high_threats      |-> count_level("HIGH"),
                                  evacuation_needed |-> evacuation_count ],
          assessments       |-> threat_assessments ]

assess_asset_threats(hotspots, assets, max_distance_km, now) ==
    IF scan_raises(hotspots, assets)
    THEN [ error             |-> TRUE,
           timestamp         |-> now,
           max_distance_km   |-> NoValue,
           total_assessments |-> 0,
           summary           |-> NoValue,
           assessments       |-> << >> ]
    ELSE
      LET in_range(pair) ==
              within_cutoff(calculate_distance(float_of(pair.hotspot.latitude),
                                               float_of(pair.hotspot.longitude),
                                               float_of(pair.asset.latitude),
                                               float_of(pair.asset.longitude)),
                            max_distance_km)
          scanned == SelectSeq(pair_scan(hotspots, assets), in_range)
          threat_assessments ==
              [ k \in DOMAIN scanned |->
                  assess_fire_threat(scanned[k].hotspot, scanned[k].asset) ]
          scores == [ k \in DOMAIN threat_assessments |-> threat_assessments[k].threat_score ]
      IN  asset_threats_result(sort_by_key(threat_assessments, scores, TRUE),
                               max_distance_km, now)

(***************************************************************************)
(* assess_asset_threats called twice on the same arguments.  A record's id *)
(* is its position in its list.  In SpecAssess every record has numeric    *)
(* coordinates; in SpecAssessRaw a list may also hold a record whose       *)
(* latitude is not a number.                                               *)
(***************************************************************************)
MaxHotspots == 2

MaxAssets == 2

ListsUpTo(S, n) == UNION { [1 .. k -> S] : k \in 0 .. n }

with_ids(list) == [ i \in DOMAIN list |-> [list[i] EXCEPT !.id = i] ]

HotspotLists(raw) ==
    ListsUpTo({ [id |-> 0, latitude |-> lat, longitude |-> Num(0), confidence |-> c]
                  : lat \in {Num(0), Num(3000)} \cup (IF raw THEN {Malformed} ELSE {}),
                    c \in {"nominal", "high"} },
              MaxHotspots)

AssetLists(raw) ==
    ListsUpTo({ [id |-> 0, latitude |-> lat, longitude |-> Num(0),
                 asset_type |-> t, population |-> 0]
                  : lat \in {Num(1000), Num(2000), Num(2001)}
                            \cup (IF raw THEN {Malformed} ELSE {}),
                    t \in {"residential", "power_plant"} },
              MaxAssets)

CutoffValues == {2000, 10000}

InitAssessWith(raw) ==
    /\ clock = 0
    /\ alerts_table = << >>
    /\ call = [p \in Procs |-> IdleCall]
    /\ \E hotspots \in HotspotLists(raw), max_distance_km \in CutoffValues :
         probe = [ fn |-> "assess_asset_threats", raw |-> raw,
                   hotspots |-> with_ids(hotspots), max_distance_km |-> max_distance_km,
                   assets |-> << >>, calls |-> 0, first |-> NoValue, second |-> NoValue ]

InitAssess == InitAssessWith(FALSE)

InitAssessRaw == InitAssessWith(TRUE)

(* The first call; the time it takes is zero or one tick of the clock.     *)
EvalAssess ==
    /\ probe.fn = "assess_asset_threats"
    /\ probe.calls = 0
    /\ \E assets \in AssetLists(probe.raw) :
         probe' = [probe EXCEPT !.assets = with_ids(assets), !.calls = 1,
                                !.first = assess_asset_threats(probe.hotspots, with_ids(assets),
                                                               probe.max_distance_km, clock)]
    /\ \E elapsed \in 0 .. 1 : clock' = clock + elapsed
    /\ UNCHANGED << alerts_table, call >>

(* The second call, with the arguments of the first.                       *)
EvalAssessAgain ==
    /\ probe.fn = "assess_asset_threats"
    /\ probe.calls = 1
    /\ probe' = [probe EXCEPT !.calls = 2,
                              !.second = assess_asset_threats(probe.hotspots, probe.assets,
                                                              probe.max_distance_km, clock)]
    /\ UNCHANGED << clock, alerts_table, call >>

NextAssess == EvalAssess \/ EvalAssessAgain

SpecAssess == InitAssess /\ [][NextAssess]_vars

SpecAssessRaw == InitAssessRaw /\ [][NextAssess]_vars

WellFormed(record) == record.latitude.ok /\ record.longitude.ok

PairDistance(i, j) ==
    Abs(float_of(probe.assets[j].latitude) - float_of(probe.hotspots[i].latitude))

AssessmentsOfPair(result, i, j) ==
    { k \in DOMAIN result.assessments :
        /\ result.assessments[k].fire_id = i
        /\ result.assessments[k].asset_id = j }

(***************************************************************************)
(* C14: assess_asset_threats returns an assessment for a (hotspot, asset)  *)
(* pair exactly when the pair's distance is at most max_distance_km: a     *)
(* farther pair is never scored, a pair within the cutoff appears exactly  *)
(* once.                                                                   *)
(***************************************************************************)
C14_AssessedExactlyWithinCutoff ==
    probe.calls >= 1 =>
        \A i \in DOMAIN probe.hotspots, j \in DOMAIN probe.assets :
            Cardinality(AssessmentsOfPair(probe.first, i, j))
                = IF PairDistance(i, j) <= probe.max_distance_km THEN 1 ELSE 0

(***************************************************************************)
(* A call has returned for a pair exactly at the cutoff distance and a     *)
(* pair one metre beyond it.                                               *)
(***************************************************************************)
C14_Witness ==
    /\ probe.calls >= 1
    /\ \E i \in DOMAIN probe.hotspots, j, k \in DOMAIN probe.assets :
         /\ PairDistance(i, j) = probe.max_distance_km
         /\ PairDistance(i, k) = probe.max_distance_km + 1

C19_MalformedRecordIsSkipped ==
    probe.calls >= 1 =>
        \A i \in DOMAIN probe.hotspots, j \in DOMAIN probe.assets :
            ( /\ WellFormed(probe.hotspots[i])
              /\ WellFormed(probe.assets[j])
              /\ PairDistance(i, j) <= probe.max_distance_km )
                => AssessmentsOfPair(probe.first, i, j) # {}

(***************************************************************************)
(* rank_fire_threats.  A brightness is a whole number; a computed score is *)
(* in thousandths, so is a draw of np.random.uniform(0, 50), which lies in *)
(* 0 .. 49999; a returned threat_score is in hundredths.  draws[i] is the number the generator yields for the i-th     *)
(* hotspot; only the population_proximity criterion consumes it.  The      *)
(* coordinates a ranked fire merely copies are left out.                   *)
(***************************************************************************)
criteria_score_all_simulated(criteria, brightness, confidence, draw) ==
    IF criteria = "population_proximity" THEN brightness * 500 + draw
    ELSE IF criteria = "fire_intensity"
         THEN brightness * 800 + draw + (IF confidence = "high" THEN 100000 ELSE 50000)
    ELSE IF criteria = "spread_potential"
         THEN brightness * 10000
                * (IF confidence \in DOMAIN fire_intensity_levels
                   THEN fire_intensity_levels[confidence].spread_rate ELSE 3)
    ELSE brightness * 600

criteria_score(criteria, brightness, confidence, draw) ==
    IF criteria = "population_proximity" THEN brightness * 500 + draw
    ELSE IF criteria = "fire_intensity"
         THEN brightness * 800 + (IF confidence = "high" THEN 100000 ELSE 50000)
    ELSE IF criteria = "spread_potential"
         THEN brightness * 10000
                * (IF confidence \in DOMAIN fire_intensity_levels
                   THEN fire_intensity_levels[confidence].spread_rate ELSE 3)
    ELSE brightness * 600

ranking_level_of(threat_score) ==
    IF threat_score > 80000 THEN "CRITICAL"
    ELSE IF threat_score > 60000 THEN "HIGH"
    ELSE IF threat_score > 40000 THEN "MODERATE"
    ELSE "LOW"

(* Competition ranking: fires of equal score share a rank.                 *)
with_ranks_shared(ranked_fires) ==
    [ i \in DOMAIN ranked_fires |->
        [ ranked_fires[i] EXCEPT !.rank =
            1 + Cardinality({ j \in DOMAIN ranked_fires :
                                ranked_fires[j].threat_score > ranked_fires[i].threat_score }) ] ]

(* for i, fire in enumerate(ranked_fires): fire['rank'] = i + 1            *)
with_ranks(ranked_fires) ==
    [ i \in DOMAIN ranked_fires |-> [ ranked_fires[i] EXCEPT !.rank = i ] ]

rank_fire_threats(hotspots, criteria, draws, now) ==
    LET ranked_fires ==
            [ i \in DOMAIN hotspots |->
                LET threat_score == criteria_score(criteria, hotspots[i].brightness,
                                                   hotspots[i].confidence, draws[i])
                IN  [ fire_id          |-> hotspots[i].id,
                      confidence       |-> hotspots[i].confidence,
                      brightness       |-> hotspots[i].brightness,
                      threat_score     |-> RoundHalfEven(threat_score, 10),
                      threat_level     |-> ranking_level_of(threat_score),
                      ranking_criteria |-> criteria,
                      rank             |-> 0 ] ]
        scores == [ i \in DOMAIN ranked_fires |-> ranked_fires[i].threat_score ]
        sorted == with_ranks(sort_by_key(ranked_fires, scores, TRUE))
        count(level) == Cardinality({ i \in DOMAIN sorted : sorted[i].threat_level = level })
    IN  [ timestamp    |-> now,
          criteria     |-> criteria,
          total_fires  |-> Len(sorted),
          summary      |-> [ critical |-> count("CRITICAL"), high |-> count("HIGH"),
                             moderate |-> count("MODERATE"), low |-> count("LOW") ],
          ranked_fires |-> sorted ]

(***************************************************************************)
(* rank_fire_threats called twice on the same hotspots and criterion; each *)
(* call gets its own draws from the random generator.                      *)
(***************************************************************************)
CriteriaValues == {"population_proximity", "fire_intensity", "spread_potential", "unknown"}

RankedHotspotLists ==
    ListsUpTo({ [id |-> 0, brightness |-> b, confidence |-> c]
                  : b \in {0, 2, 100, 150}, c \in {"low", "nominal", "high"} },
              MaxHotspots)

DrawValues == {0, 49996}

InitRank ==
    /\ clock = 0
    /\ alerts_table = << >>
    /\ call = [p \in Procs |-> IdleCall]
    /\ \E hotspots \in RankedHotspotLists, criteria \in CriteriaValues :
         probe = [ fn |-> "rank_fire_threats", hotspots |-> with_ids(hotspots),
                   criteria |-> criteria, calls |-> 0,
                   first_draws |-> << >>, second_draws |-> << >>,
                   first |-> NoValue, second |-> NoValue ]

EvalRank ==
    /\ probe.fn = "rank_fire_threats"
    /\ probe.calls = 0
    /\ \E draws \in [DOMAIN probe.hotspots -> DrawValues] :
         probe' = [probe EXCEPT !.calls = 1, !.first_draws = draws,
                                !.first = rank_fire_threats(probe.hotspots, probe.criteria,
                                                            draws, clock)]
    /\ \E elapsed \in 0 .. 1 : clock' = clock + elapsed
    /\ UNCHANGED << alerts_table, call >>

EvalRankAgain ==
    /\ probe.fn = "rank_fire_threats"
    /\ probe.calls = 1
    /\ \E draws \in [DOMAIN probe.hotspots -> DrawValues] :
         probe' = [probe EXCEPT !.calls = 2, !.second_draws = draws,
                                !.second = rank_fire_threats(probe.hotspots, probe.criteria,
                                                             draws, clock)]
    /\ UNCHANGED << clock, alerts_table, call >>

NextRank == EvalRank \/ EvalRankAgain

SpecRank == InitRank /\ [][NextRank]_vars

RanksOf(result) == { result.ranked_fires[k].rank : k \in DOMAIN result.ranked_fires }

ScoreAndRank(result) ==
    { << result.ranked_fires[k].fire_id, result.ranked_fires[k].threat_score,
         result.ranked_fires[k].rank >> : k \in DOMAIN result.ranked_fires }

(***************************************************************************)
(* C16: for N input hotspots the ranks output by rank_fire_threats are     *)
(* exactly 1 .. N: every hotspot gets exactly one rank, with no gap and no *)
(* duplicate, whatever the criterion.                                      *)
(***************************************************************************)
C16_RanksAreOneToN ==
    probe.calls >= 1 =>
        /\ Len(probe.first.ranked_fires) = Len(probe.hotspots)
        /\ RanksOf(probe.first) = 1 .. Len(probe.hotspots)
        /\ { probe.first.ranked_fires[k].fire_id : k \in DOMAIN probe.first.ranked_fires }
              = DOMAIN probe.hotspots

(***************************************************************************)
(* Two hotspots of equal score have been ranked.                           *)
(***************************************************************************)
C16_Witness ==
    /\ probe.calls >= 1
    /\ Len(probe.first.ranked_fires) = 2
    /\ probe.first.ranked_fires[1].threat_score = probe.first.ranked_fires[2].threat_score

(***************************************************************************)
(* C17 as stated: for every criterion (population_proximity,               *)
(* fire_intensity, spread_potential, unknown) the score and rank of a      *)
(* hotspot are a function of brightness and confidence: two calls with the *)
(* same input produce the same scores and the same ranking.                *)
(***************************************************************************)
C17_SameInputSameRanking ==
    probe.calls = 2 => ScoreAndRank(probe.first) = ScoreAndRank(probe.second)

(***************************************************************************)
(* C17 amended: for the criteria fire_intensity, spread_potential and any  *)
(* unknown criterion, two calls with the same input produce the same       *)
(* scores and the same ranking; under population_proximity a score is      *)
(* brightness * 0.5 plus a random number of [0, 50) drawn at each call,    *)
(* so the returned score lies between brightness * 0.5 and that plus 50.   *)
(***************************************************************************)
C17_SameInputSameRankingUnlessSimulated ==
    probe.calls = 2 =>
        /\ probe.criteria # "population_proximity"
             => ScoreAndRank(probe.first) = ScoreAndRank(probe.second)
        /\ probe.criteria = "population_proximity"
             => \A k \in DOMAIN probe.first.ranked_fires :
                   /\ probe.first.ranked_fires[k].threat_score
                         >= 50 * probe.first.ranked_fires[k].brightness
                   /\ probe.first.ranked_fires[k].threat_score
                         <= 50 * probe.first.ranked_fires[k].brightness + 5000

(***************************************************************************)
(* Two hotspots were ranked twice by fire_intensity while the random       *)
(* generator yielded different numbers in the two calls.                   *)
(***************************************************************************)
C17_Witness ==
    /\ probe.calls = 2
    /\ probe.criteria = "fire_intensity"
    /\ Len(probe.hotspots) = 2
    /\ probe.first_draws # probe.second_draws

(***************************************************************************)
(* calculate_evacuation_zones.  buffer_distance_km and the computed        *)
(* evacuation radius are in metres (the radius in tenths of a metre while  *)
(* compared), the returned evacuation_radius_km and distance_km in         *)
(* hundredths of a km.                                                     *)
(***************************************************************************)
RECURSIVE sum_of(_)
sum_of(numbers) ==
    IF numbers = << >> THEN 0 ELSE Head(numbers) + sum_of(Tail(numbers))

within_evacuation_radius_exclusive(distance, base_radius, intensity_multiplier) ==
    10 * distance < base_radius * intensity_multiplier

(* if distance <= evacuation_radius, the radius being base_radius times    *)
(* intensity_multiplier (in tenths).                                       *)
within_evacuation_radius(distance, base_radius, intensity_multiplier) ==
    10 * distance <= base_radius * intensity_multiplier

(* The zone of one hotspot: lines 316-366.                                 *)
evacuation_zone(hotspot, assets, buffer_distance_km) ==
    LET intensity_multiplier == fire_config_of(hotspot.confidence).threat_multiplier
        distance_of(asset) ==
            calculate_distance(float_of(hotspot.latitude), float_of(hotspot.longitude),
                               float_of(asset.latitude), float_of(asset.longitude))
        in_zone(asset) ==
            within_evacuation_radius(distance_of(asset), buffer_distance_km, intensity_multiplier)
        inside == SelectSeq(assets, in_zone)
        affected ==
            [ k \in DOMAIN inside |->
                [ asset_id    |-> inside[k].id,
                  asset_type  |-> inside[k].asset_type,
                  distance_km |-> RoundHalfEven(distance_of(inside[k]), 10),
                  population  |-> inside[k].population ] ]
        affected_assets ==
            sort_by_key(affected, [ k \in DOMAIN affected |-> affected[k].distance_km ], FALSE)
        present == { affected_assets[k].asset_type : k \in DOMAIN affected_assets }
    IN  [ fire_id               |-> hotspot.id,
          fire_latitude         |-> float_of(hotspot.latitude),
          fire_confidence       |-> hotspot.confidence,
          evacuation_radius_km  |-> RoundHalfEven(buffer_distance_km * intensity_multiplier, 100),
          affected_assets_count |-> Len(affected_assets),
          total_population      |->
              sum_of([ k \in DOMAIN affected_assets |-> affected_assets[k].population ]),
          asset_types           |->
              [ t \in present |->
                  Cardinality({ k \in DOMAIN affected_assets :
                                  affected_assets[k].asset_type = t }) ],
          affected_assets       |-> affected_assets ]

sort_zones_ascending(evacuation_zones) ==
    sort_by_key(evacuation_zones,
                [ k \in DOMAIN evacuation_zones |-> evacuation_zones[k].total_population ],
                FALSE)

(* evacuation_zones.sort(key=lambda x: x['total_population'], reverse=True) *)
sort_zones(evacuation_zones) ==
    sort_by_key(evacuation_zones,
                [ k \in DOMAIN evacuation_zones |-> evacuation_zones[k].total_population ],
                TRUE)

calculate_evacuation_zones(hotspots, assets, buffer_distance_km, now) ==
    IF scan_raises(hotspots, assets)
    THEN [ error |-> TRUE, timestamp |-> now, buffer_distance_km |-> NoValue,
           summary |-> NoValue, evacuation_zones |-> << >> ]
    ELSE
      LET evacuation_zones ==
              sort_zones([ i \in DOMAIN hotspots |->
                             evacuation_zone(hotspots[i], assets, buffer_distance_km) ])
      IN  [ error              |-> FALSE,
            timestamp          |-> now,
            buffer_distance_km |-> buffer_distance_km,
            summary            |->
                [ total_evacuation_zones    |-> Len(evacuation_zones),
                  total_affected_assets     |->
                      sum_of([ k \in DOMAIN evacuation_zones |->
                                 evacuation_zones[k].affected_assets_count ]),
                  total_affected_population |->
                      sum_of([ k \in DOMAIN evacuation_zones |->
                                 evacuation_zones[k].total_population ]) ],
            evacuation_zones   |-> evacuation_zones ]

(***************************************************************************)
(* One call of calculate_evacuation_zones on lists of records with numeric *)
(* coordinates.                                                            *)
(***************************************************************************)
EvacHotspotLists ==
    ListsUpTo({ [id |-> 0, latitude |-> Num(lat), longitude |-> Num(0), confidence |-> c]
                  : lat \in {0, 3000}, c \in {"low", "nominal"} },
              MaxHotspots)

EvacAssetLists ==
    ListsUpTo({ [id |-> 0, latitude |-> Num(lat), longitude |-> Num(0),
                 asset_type |-> t, population |-> n]
                  : lat \in {1000, 1004, 2000}, t \in {"residential", "school"},
                    n \in {500, 1500} },
              MaxAssets)

BufferValues == {2000, 4000}

InitEvac ==
    /\ clock = 0
    /\ alerts_table = << >>
    /\ call = [p \in Procs |-> IdleCall]
    /\ \E hotspots \in EvacHotspotLists, buffer_distance_km \in BufferValues :
         probe = [ fn |-> "calculate_evacuation_zones", hotspots |-> with_ids(hotspots),
                   buffer_distance_km |-> buffer_distance_km,
                   assets |-> << >>, done |-> FALSE, out |-> NoValue ]

EvalEvac ==
    /\ probe.fn = "calculate_evacuation_zones"
    /\ ~probe.done
    /\ \E assets \in EvacAssetLists :
         probe' = [probe EXCEPT !.assets = with_ids(assets), !.done = TRUE,
                                !.out = calculate_evacuation_zones(probe.hotspots, with_ids(assets),
                                                                   probe.buffer_distance_km, clock)]
    /\ UNCHANGED << clock, alerts_table, call >>

NextEvac == EvalEvac

SpecEvac == InitEvac /\ [][NextEvac]_vars

(***************************************************************************)
(* C18: the zones returned by calculate_evacuation_zones are sorted by     *)
(* total_population, largest first: each zone's total_population is at     *)
(* least that of the zone after it.                                        *)
(***************************************************************************)
C18_ZonesSortedByPopulationDescending ==
    probe.done =>
        \A k \in DOMAIN probe.out.evacuation_zones :
            k + 1 \in DOMAIN probe.out.evacuation_zones
                => probe.out.evacuation_zones[k].total_population
                     >= probe.out.evacuation_zones[k + 1].total_population

(***************************************************************************)
(* The first hotspot's zone holds 500 people and the second's 1500, and    *)
(* the call returned them as 1500 then 500.                                *)
(***************************************************************************)
C18_Witness ==
    /\ probe.done
    /\ Len(probe.out.evacuation_zones) = 2
    /\ probe.out.evacuation_zones[1].fire_id = 2
    /\ probe.out.evacuation_zones[1].total_population = 1500
    /\ probe.out.evacuation_zones[2].fire_id = 1
    /\ probe.out.evacuation_zones[2].total_population = 500

(***************************************************************************)
(* src/wildfire-detection/lambda_function.py: lambda_handler.  An event    *)
(* may lack the action_name key, and may lack the keys its tool reads      *)
(* with event[...]; a tool that runs either returns its result or, from    *)
(* its own except branch, an error dictionary.                             *)
(***************************************************************************)
available_tools ==
    << "fetch_firms_hotspots", "assess_threat_level", "generate_fire_map",
       "draft_ics_update", "check_aoi_intersections" >>

(* A dispatch whose final branch runs a tool instead of rejecting.         *)
tool_for_with_default(tool_name) ==
    IF tool_name = "fetch_firms_hotspots" THEN "tool_fetch_firms_hotspots"
    ELSE IF tool_name = "assess_threat_level" THEN "tool_assess_threat_level"
    ELSE IF tool_name = "generate_fire_map" THEN "tool_generate_fire_map"
    ELSE IF tool_name = "draft_ics_update" THEN "tool_draft_ics_update"
    ELSE "tool_check_aoi_intersections"

(* The if / elif chain on tool_name; "none" is its else branch.            *)
tool_for(tool_name) ==
    IF tool_name = "fetch_firms_hotspots" THEN "tool_fetch_firms_hotspots"
    ELSE IF tool_name = "assess_threat_level" THEN "tool_assess_threat_level"
    ELSE IF tool_name = "generate_fire_map" THEN "tool_generate_fire_map"
    ELSE IF tool_name = "draft_ics_update" THEN "tool_draft_ics_update"
    ELSE IF tool_name = "check_aoi_intersections" THEN "tool_check_aoi_intersections"
    ELSE "none"

(* The tools whose arguments are read with event[...], not event.get(...). *)
reads_required_keys(tool) ==
    tool \in {"tool_assess_threat_level", "tool_generate_fire_map"}

(* The response and the tool run, if any; outcome is what that tool does.  *)
lambda_handler(event, outcome) ==
    IF ~event.has_action_name
    THEN [ ran |-> "none",
           response |-> [ statusCode |-> 500,
                          body |-> [ error |-> << "Internal server error", "action_name" >> ] ] ]
    ELSE IF tool_for(event.action_name) = "none"
    THEN [ ran |-> "none",
           response |-> [ statusCode |-> 400,
                          body |-> [ error |-> << "Unknown tool", event.action_name >>,
                                     available_tools |-> available_tools ] ] ]
    ELSE IF reads_required_keys(tool_for(event.action_name)) /\ ~event.has_required_keys
    THEN [ ran |-> "none",
           response |-> [ statusCode |-> 500,
                          body |-> [ error |-> << "Internal server error", "required key" >> ] ] ]
    ELSE [ ran |-> tool_for(event.action_name),
           response |-> [ statusCode |-> 200,
                          body |-> [ tool |-> tool_for(event.action_name),
                                     result |-> outcome ] ] ]

MaxEvents == 2

Events ==
    { [ has_action_name |-> TRUE, action_name |-> name, has_required_keys |-> keys ]
        : name \in { available_tools[i] : i \in DOMAIN available_tools }
                     \cup {"invalid_tool_name", "FETCH_FIRMS_HOTSPOTS"},
          keys \in BOOLEAN }
    \cup { [ has_action_name |-> FALSE, action_name |-> "", has_required_keys |-> FALSE ] }

InitHandler ==
    /\ clock = 0
    /\ alerts_table = << >>
    /\ call = [p \in Procs |-> IdleCall]
    /\ probe = [ fn |-> "lambda_handler", handled |-> << >> ]

EvalHandler ==
    /\ probe.fn = "lambda_handler"
    /\ Len(probe.handled) < MaxEvents
    /\ \E event \in Events, outcome \in {"result", "error"} :
         probe' = [probe EXCEPT !.handled =
                      Append(@, [ event |-> event, out |-> lambda_handler(event, outcome) ])]
    /\ UNCHANGED << clock, alerts_table, call >>

NextHandler == EvalHandler

SpecHandler == InitHandler /\ [][NextHandler]_vars

FiveKnownTools ==
    { "fetch_firms_hotspots", "assess_threat_level", "generate_fire_map",
      "draft_ics_update", "check_aoi_intersections" }

(***************************************************************************)
(* C20: lambda_handler answers an event whose action_name is not one of    *)
(* the five known tools with statusCode 400 and a body that names the      *)
(* error and lists the available tools, and runs no tool for that event.   *)
(***************************************************************************)
C20_UnknownToolIsRejected ==
    \A k \in DOMAIN probe.handled :
        ( /\ probe.handled[k].event.has_action_name
          /\ probe.handled[k].event.action_name \notin FiveKnownTools )
            => /\ probe.handled[k].out.response.statusCode = 400
               /\ probe.handled[k].out.response.body.error
                     = << "Unknown tool", probe.handled[k].event.action_name >>
               /\ { probe.handled[k].out.response.body.available_tools[i]
                      : i \in DOMAIN probe.handled[k].out.response.body.available_tools }
                     = FiveKnownTools
               /\ probe.handled[k].out.ran = "none"

(***************************************************************************)
(* The handler has answered an event for invalid_tool_name after it ran a  *)
(* tool for an earlier event.                                              *)
(***************************************************************************)
C20_Witness ==
    /\ Len(probe.handled) = 2
    /\ probe.handled[1].out.ran # "none"
    /\ probe.handled[2].event.action_name = "invalid_tool_name"
    /\ probe.handled[2].out.response.statusCode = 400

(***************************************************************************)
(* The calls of process_hotspot_for_alerts that built an alert record and  *)
(* returned its id.                                                        *)
(***************************************************************************)
Returned == { p \in Procs : call[p].pc = "done" /\ call[p].alert_record # NoValue }

(***************************************************************************)
(* C25: no stored alert record is overwritten by a different alert: two    *)
(* distinct alerts that process_hotspot_for_alerts stores get distinct     *)
(* alert_id values, also when they are created within the same second for  *)
(* the same hotspot location.                                              *)
(***************************************************************************)
C25_DistinctAlertsGetDistinctIds ==
    \A p, q \in Returned :
        (p # q /\ ~call[p].put_raised /\ ~call[q].put_raised)
            => call[p].alert_record.alert_id # call[q].alert_record.alert_id

(***************************************************************************)
(* C26: every alert_id that process_hotspot_for_alerts returns with        *)
(* suppressed = False refers to a record present in the alert store when   *)
(* the call returns, also when the store write failed.                     *)
(***************************************************************************)
C26_ReturnedIdIsStored ==
    \A p \in Returned :
        call[p].result.suppressed = FALSE
            => call[p].result.alert_id \in DOMAIN alerts_table

(***************************************************************************)
(* C27: a stored alert record has status SENT exactly when a notifier was  *)
(* invoked for it and its result map carries no error entry, and FAILED    *)
(* otherwise; SENT implies that at least one channel reported success, so  *)
(* an alert whose every channel failed, or for which no notifier was       *)
(* invoked, is never stored as SENT.                                       *)
(***************************************************************************)
C27_SentMeansSomeChannelDelivered ==
    \A id \in DOMAIN alerts_table :
        /\ alerts_table[id].status \in {"SENT", "FAILED"}
        /\ alerts_table[id].status = "SENT"
              <=> alerts_table[id].notification_results.kind = "map"
        /\ alerts_table[id].status = "SENT"
              => alerts_table[id].notification_results.delivered # {}

(***************************************************************************)
(* C21: the assessment list returned by assess_asset_threats is sorted by  *)
(* threat score descending, ties broken by distance ascending and then by  *)
(* asset id ascending, so that the order of equal-score assessments does   *)
(* not depend on the input order.                                          *)
(***************************************************************************)
C21_TiesByDistanceThenAssetId ==
    probe.calls >= 1 =>
        \A k \in DOMAIN probe.first.assessments :
            k + 1 \in DOMAIN probe.first.assessments =>
                LET a == probe.first.assessments[k]
                    b == probe.first.assessments[k + 1]
                IN  \/ a.threat_score > b.threat_score
                    \/ /\ a.threat_score = b.threat_score
                       /\ \/ a.distance_km < b.distance_km
                          \/ /\ a.distance_km = b.distance_km
                             /\ a.asset_id <= b.asset_id

(***************************************************************************)
(* C22: rank_fire_threats orders hotspots by score descending, and         *)
(* hotspots of equal score keep their input order: the one that came       *)
(* earlier in the input gets the smaller rank.                             *)
(***************************************************************************)
C22_EqualScoresKeepInputOrder ==
    probe.calls >= 1 =>
        \A k, m \in DOMAIN probe.first.ranked_fires :
            LET a == probe.first.ranked_fires[k]
                b == probe.first.ranked_fires[m]
                a_first == \/ a.threat_score > b.threat_score
                           \/ a.threat_score = b.threat_score /\ a.fire_id < b.fire_id
            IN  a_first <=> (k < m /\ a.rank < b.rank)

(***************************************************************************)
(* Two different hotspots have been ranked with the same score.            *)
(***************************************************************************)
C22_Witness ==
    /\ probe.calls >= 1
    /\ Len(probe.first.ranked_fires) = 2
    /\ probe.first.ranked_fires[1].threat_score = probe.first.ranked_fires[2].threat_score
    /\ probe.first.ranked_fires[1].fire_id = 1
    /\ probe.hotspots[1].brightness # probe.hotspots[2].brightness

(***************************************************************************)
(* The assets of the call that lie within the evacuation radius of the     *)
(* hotspot a zone was built for, the distance of a listed asset to that    *)
(* hotspot, and the sum of a function over a set of its arguments.         *)
(***************************************************************************)
ZoneDistance(zone, j) ==
    Abs(float_of(probe.assets[j].latitude) - zone.fire_latitude)

AssetsInRadius(zone) ==
    { j \in DOMAIN probe.assets :
        10 * ZoneDistance(zone, j)
            <= probe.buffer_distance_km
                 * fire_config_of(zone.fire_confidence).threat_multiplier }

RECURSIVE SumOver(_, _)
SumOver(f, S) ==
    IF S = {} THEN 0
    ELSE LET x == CHOOSE y \in S : TRUE IN f[x] + SumOver(f, S \ {x})

ZoneHoldsAssetsInRadius(zone) ==
    /\ { zone.affected_assets[k].asset_id : k \in DOMAIN zone.affected_assets }
          = AssetsInRadius(zone)
    /\ Len(zone.affected_assets) = Cardinality(AssetsInRadius(zone))
    /\ zone.affected_assets_count = Len(zone.affected_assets)
    /\ zone.total_population
          = SumOver([ j \in DOMAIN probe.assets |-> probe.assets[j].population ],
                    AssetsInRadius(zone))
    /\ SumOver(zone.asset_types, DOMAIN zone.asset_types) = zone.affected_assets_count

edge_toggles(x, y, p1, p2) ==
    LET p1x == p1[1]
        p1y == p1[2]
        p2x == p2[1]
        p2y == p2[2]
        min(a, b) == IF a < b THEN a ELSE b
        max(a, b) == IF a > b THEN a ELSE b
        x_le_xinters ==
            IF p2y > p1y
            THEN (x - p1x) * (p2y - p1y) <= (y - p1y) * (p2x - p1x)
            ELSE (x - p1x) * (p2y - p1y) >= (y - p1y) * (p2x - p1x)
    IN  /\ y > min(p1y, p2y)
        /\ y <= max(p1y, p2y)
        /\ x <= max(p1x, p2x)
        /\ (p1x = p2x \/ x_le_xinters)

point_in_polygon(lat, lon, polygon) ==
    LET x == lon
        y == lat
        n == Len(polygon)
        toggles == { i \in 1 .. n :
                       edge_toggles(x, y, polygon[((i - 1) % n) + 1], polygon[(i % n) + 1]) }
    IN  IF n = 0
        THEN [ raised |-> TRUE, inside |-> FALSE ]
        ELSE [ raised |-> FALSE, inside |-> Cardinality(toggles) % 2 = 1 ]

(***************************************************************************)
(* point_in_polygon called twice, each time on a query point and a ring of *)
(* its own.                                                                *)
(***************************************************************************)
MaxVertices == 3

Rings == ListsUpTo({ << 0, 0 >>, << 4, 0 >>, << 0, 4 >> }, MaxVertices)

QueryPoints == { << 1, 1 >>, << 0, 4 >>, << 5, 5 >> }

polygon_evaluation(point, polygon) ==
    [ lon |-> point[1], lat |-> point[2], polygon |-> polygon,
      outcome |-> point_in_polygon(point[2], point[1], polygon) ]

InitPolygon ==
    /\ clock = 0
    /\ alerts_table = << >>
    /\ call = [p \in Procs |-> IdleCall]
    /\ probe = [ fn |-> "point_in_polygon", calls |-> 0, first |-> NoValue, second |-> NoValue ]

EvalPolygon ==
    /\ probe.fn = "point_in_polygon"
    /\ probe.calls = 0
    /\ \E point \in QueryPoints, polygon \in Rings :
         probe' = [probe EXCEPT !.calls = 1, !.first = polygon_evaluation(point, polygon)]
    /\ UNCHANGED << clock, alerts_table, call >>

EvalPolygonAgain ==
    /\ probe.fn = "point_in_polygon"
    /\ probe.calls = 1
    /\ \E point \in QueryPoints, polygon \in Rings :
         probe' = [probe EXCEPT !.calls = 2, !.second = polygon_evaluation(point, polygon)]
    /\ UNCHANGED << clock, alerts_table, call >>

NextPolygon == EvalPolygon \/ EvalPolygonAgain

SpecPolygon == InitPolygon /\ [][NextPolygon]_vars

(***************************************************************************)
(* C24: point_in_polygon treats every ring of fewer than 3 vertices the    *)
(* same way, whatever the ring and the query point: either it always       *)
(* fails, or it always returns false.                                      *)
(***************************************************************************)
C24_DegenerateRingsTreatedAlike ==
    (/\ probe.calls = 2
     /\ Len(probe.first.polygon) < 3
     /\ Len(probe.second.polygon) < 3)
        => /\ probe.first.outcome.raised = probe.second.outcome.raised
           /\ ~probe.first.outcome.inside
           /\ ~probe.second.outcome.inside

(***************************************************************************)
(* src/wildfire-detection/lambda_function.py: store_hotspots, called       *)
(* concurrently on overlapping lists.  A hotspot stands for its hotspot_id *)
(* (latitude_longitude_acq_date_acq_time).  The conditional put_item is    *)
(* one atomic step of the table: it stores the item when no item has its   *)
(* hotspot_id, fails the condition when one has, and may raise any other   *)
(* error without storing.                                                  *)
(***************************************************************************)
put_item_if_absent(table, hotspot_id, raises) ==
    IF raises THEN [ table |-> table, outcome |-> "error" ]
    ELSE IF hotspot_id \in table
         THEN [ table |-> table, outcome |-> "ConditionalCheckFailedException" ]
         ELSE [ table |-> table \cup {hotspot_id}, outcome |-> "stored" ]

MaxStored == 2

HotspotIds == {"h1", "h2"}

IdleStore == [ pc |-> "idle", hotspots |-> << >>, next |-> 1, stored_count |-> 0,
               returned |-> 0 ]

InitStore ==
    /\ clock = 0
    /\ alerts_table = << >>
    /\ call = [p \in Procs |-> IdleCall]
    /\ \E initial \in {{}, {"h1"}} :
         probe = [ fn |-> "store_hotspots", initial |-> initial, table |-> initial,
                   writes |-> [ id \in HotspotIds |-> 0 ],
                   run |-> [ p \in Procs |-> IdleStore ] ]

(* if not hotspots: return 0; otherwise enter the loop with stored_count 0 *)
BeginStore(p) ==
    /\ probe.fn = "store_hotspots"
    /\ probe.run[p].pc = "idle"
    /\ \E hotspots \in ListsUpTo(HotspotIds, MaxStored) :
         probe' = [probe EXCEPT !.run[p] =
                     [ IdleStore EXCEPT !.hotspots = hotspots,
                                        !.pc = IF hotspots = << >> THEN "done" ELSE "loop" ]]
    /\ UNCHANGED << clock, alerts_table, call >>

(* One iteration of the loop: the conditional put_item of the next         *)
(* hotspot, the count, and after the last hotspot return stored_count; an  *)
(* error other than the failed condition reaches the outer except, which   *)
(* returns 0.                                                              *)
PutHotspot(p) ==
    /\ probe.fn = "store_hotspots"
    /\ probe.run[p].pc = "loop"
    /\ \E raises \in BOOLEAN :
         LET run == probe.run[p]
             hotspot_id == run.hotspots[run.next]
             put == put_item_if_absent(probe.table, hotspot_id, raises)
             stored_count == IF put.outcome = "stored"
                             THEN run.stored_count + 1 ELSE run.stored_count
             last == run.next = Len(run.hotspots)
         IN  probe' = [probe EXCEPT
                 !.table = put.table,
                 !.writes[hotspot_id] = IF put.outcome = "stored" THEN @ + 1 ELSE @,
                 !.run[p] =
                     IF put.outcome = "error"
                     THEN [ run EXCEPT !.pc = "done", !.returned = 0 ]
                     ELSE [ run EXCEPT !.next = @ + 1, !.stored_count = stored_count,
                                       !.pc = IF last THEN "done" ELSE "loop",
                                       !.returned = IF last THEN stored_count ELSE 0 ]]
    /\ UNCHANGED << clock, alerts_table, call >>

NextStore == \E p \in Procs : BeginStore(p) \/ PutHotspot(p)

SpecStore == InitStore /\ [][NextStore]_vars

RECURSIVE ReturnedBy(_)
ReturnedBy(procs) ==
    IF procs = {} THEN 0
    ELSE LET p == CHOOSE q \in procs : TRUE
         IN  probe.run[p].returned + ReturnedBy(procs \ {p})

(***************************************************************************)
(* C28: store_hotspots never stores two items with the same hotspot_id:    *)
(* across concurrent and sequential calls over overlapping lists each      *)
(* distinct hotspot_id is written at most once and never over an item      *)
(* already in the table, and once every call has returned the sum of the   *)
(* returned stored counts equals the number of distinct new hotspot_ids.   *)
(***************************************************************************)
C28_StoredOnceAndCounted ==
    /\ \A id \in HotspotIds :
          probe.writes[id] = IF id \in probe.table \ probe.initial THEN 1 ELSE 0
    /\ (\A p \in Procs : probe.run[p].pc = "done")
          => ReturnedBy(Procs) = Cardinality(probe.table \ probe.initial)

(***************************************************************************)
(* src/wildfire-detection/lambda_function.py: assess_threat_level.  The    *)
(* hotspot and the area centres lie on one meridian and a latitude is      *)
(* counted in km of arc along it, so the haversine distance of two points  *)
(* is the difference of their latitudes; polygons are rings on the same    *)
(* grid.  confidence is a percentage and confidence_factor is kept in      *)
(* hundredths.                                                             *)
(***************************************************************************)
haversine_distance(lat1, lon1, lat2, lon2) == Abs(lat2 - lat1)

(* An update that overwrites the level found so far.                       *)
updated_threat_level_unguarded(threat_level, area_priority, distance, threat_radius) ==
    IF area_priority = "HIGH" /\ distance <= 5 THEN "CRITICAL"
    ELSE IF area_priority = "HIGH" /\ distance <= threat_radius THEN "HIGH"
    ELSE IF distance <= threat_radius THEN "MEDIUM"
    ELSE threat_level

(* "Update threat level" for an area within its threat radius.             *)
updated_threat_level(threat_level, area_priority, distance, threat_radius) ==
    IF area_priority = "HIGH" /\ distance <= 5 THEN "CRITICAL"
    ELSE IF area_priority = "HIGH" /\ distance <= threat_radius
         THEN IF threat_level \notin {"CRITICAL"} THEN "HIGH" ELSE threat_level
    ELSE IF distance <= threat_radius
         THEN IF threat_level \notin {"CRITICAL", "HIGH"} THEN "MEDIUM" ELSE threat_level
    ELSE threat_level

(* The body of the loop for one area.                                      *)
scan_area(threat_assessment, hotspot_lat, hotspot_lon, area) ==
    IF area.has_polygon
       /\ point_in_polygon(hotspot_lat, hotspot_lon, area.polygon).inside
    THEN [ threat_assessment EXCEPT
             !.affected_areas = Append(@, [ area_id |-> area.area_id, distance_km |-> 0,
                                            priority |-> area.priority ]),
             !.min_distance_km = 0,
             !.threat_level = "CRITICAL" ]
    ELSE
      LET distance == haversine_distance(hotspot_lat, hotspot_lon,
                                         area.center_lat, area.center_lon)
          area_priority == area.priority
          threat_radius == area.threat_radius_km
          nearest == IF distance < threat_assessment.min_distance_km
                     THEN distance ELSE threat_assessment.min_distance_km
      IN  IF distance <= threat_radius
          THEN [ threat_assessment EXCEPT
                   !.min_distance_km = nearest,
                   !.affected_areas = Append(@, [ area_id |-> area.area_id,
                                                  distance_km |-> distance,
                                                  priority |-> area_priority ]),
                   !.threat_level = updated_threat_level(@, area_priority, distance,
                                                         threat_radius) ]
          ELSE [ threat_assessment EXCEPT !.min_distance_km = nearest ]

RECURSIVE scan_areas(_, _, _, _)
scan_areas(threat_assessment, hotspot_lat, hotspot_lon, protected_areas) ==
    IF protected_areas = << >> THEN threat_assessment
    ELSE scan_areas(scan_area(threat_assessment, hotspot_lat, hotspot_lon,
                              Head(protected_areas)),
                    hotspot_lat, hotspot_lon, Tail(protected_areas))

(* confidence_factor < 0.3, confidence_factor being confidence / 100.0     *)
low_confidence(confidence) == 10 * confidence < 300

assess_threat_level(hotspot, protected_areas) ==
    LET scanned == scan_areas([ threat_level    |-> "LOW",
                                min_distance_km |-> Inf,
                                affected_areas  |-> << >>,
                                confidence_factor |-> hotspot.confidence ],
                              hotspot.latitude, hotspot.longitude, protected_areas)
    IN  IF low_confidence(hotspot.confidence)
        THEN [ scanned EXCEPT !.threat_level =
                 IF @ = "CRITICAL" THEN "HIGH" ELSE IF @ = "HIGH" THEN "MEDIUM" ELSE @ ]
        ELSE scanned

(***************************************************************************)
(* assess_threat_level called on a list of areas, and then either on a     *)
(* permutation of the list or on the list with one area's priority raised. *)
(***************************************************************************)
MaxProtected == 2

Priorities == << "LOW", "MEDIUM", "HIGH", "CRITICAL" >>

ProtectedAreaLists ==
    ListsUpTo({ [ area_id |-> 0, priority |-> Priorities[r], center_lat |-> lat,
                  center_lon |-> 0, threat_radius_km |-> 10,
                  has_polygon |-> ring # << >>, polygon |-> ring ]
                  : r \in DOMAIN Priorities, lat \in {3, 8, 30},
                    ring \in { << >>,
                               << << -1, -1 >>, << -1, 1 >>, << 1, 1 >>, << 1, -1 >> >> } },
              MaxProtected)

with_area_ids(list) == [ i \in DOMAIN list |-> [list[i] EXCEPT !.area_id = i] ]

InitAreaThreat ==
    /\ clock = 0
    /\ alerts_table = << >>
    /\ call = [p \in Procs |-> IdleCall]
    /\ \E confidence \in {20, 80} :
         probe = [ fn |-> "assess_threat_level",
                   hotspot |-> [ latitude |-> 0, longitude |-> 0, confidence |-> confidence ],
                   protected_areas |-> << >>, calls |-> 0, first |-> NoValue,
                   variant |-> "none", other_areas |-> << >>, second |-> NoValue ]

EvalAreaThreat ==
    /\ probe.fn = "assess_threat_level"
    /\ probe.calls = 0
    /\ \E areas \in ProtectedAreaLists :
         probe' = [probe EXCEPT !.protected_areas = with_area_ids(areas), !.calls = 1,
                                !.first = assess_threat_level(probe.hotspot,
                                                              with_area_ids(areas))]
    /\ UNCHANGED << clock, alerts_table, call >>

(* The second call, on the same areas in another order.                    *)
EvalAreaThreatPermuted ==
    /\ probe.fn = "assess_threat_level"
    /\ probe.calls = 1
    /\ \E order \in [DOMAIN probe.protected_areas -> DOMAIN probe.protected_areas] :
         /\ \A i, j \in DOMAIN order : order[i] = order[j] => i = j
         /\ LET areas == [ i \in DOMAIN order |-> probe.protected_areas[order[i]] ]
            IN  probe' = [probe EXCEPT !.calls = 2, !.variant = "permuted",
                                       !.other_areas = areas,
                                       !.second = assess_threat_level(probe.hotspot, areas)]
    /\ UNCHANGED << clock, alerts_table, call >>

(* The second call, on the same areas with the priority of one raised.     *)
EvalAreaThreatRaised ==
    /\ probe.fn = "assess_threat_level"
    /\ probe.calls = 1
    /\ \E k \in DOMAIN probe.protected_areas, r \in DOMAIN Priorities :
         /\ \E lower \in 1 .. (r - 1) : probe.protected_areas[k].priority = Priorities[lower]
         /\ LET areas == [probe.protected_areas EXCEPT ![k].priority = Priorities[r]]
            IN  probe' = [probe EXCEPT !.calls = 2, !.variant = "raised",
                                       !.other_areas = areas,
                                       !.second = assess_threat_level(probe.hotspot, areas)]
    /\ UNCHANGED << clock, alerts_table, call >>

NextAreaThreat == EvalAreaThreat \/ EvalAreaThreatPermuted \/ EvalAreaThreatRaised

SpecAreaThreat == InitAreaThreat /\ [][NextAreaThreat]_vars

ThreatRank(threat_level) ==
    CHOOSE r \in DOMAIN Priorities : Priorities[r] = threat_level

(***************************************************************************)
(* C29: the threat_level and min_distance_km returned by                   *)
(* assess_threat_level do not depend on the order of the protected_areas   *)
(* list: every permutation of the same areas gives the same level and the  *)
(* same minimum distance.                                                  *)
(***************************************************************************)
C29_AreaOrderDoesNotMatter ==
    (probe.calls = 2 /\ probe.variant = "permuted")
        => /\ probe.second.threat_level = probe.first.threat_level
           /\ probe.second.min_distance_km = probe.first.min_distance_km

(***************************************************************************)
(* A HIGH-priority area within 5 km and a MEDIUM-priority area within its  *)
(* radius have been scanned in both orders; the level is CRITICAL.         *)
(***************************************************************************)
C29_Witness ==
    /\ probe.calls = 2
    /\ probe.variant = "permuted"
    /\ Len(probe.protected_areas) = 2
    /\ probe.other_areas # probe.protected_areas
    /\ probe.protected_areas[1].priority = "HIGH"
    /\ probe.protected_areas[1].center_lat = 3
    /\ ~probe.protected_areas[1].has_polygon
    /\ probe.protected_areas[2].priority = "MEDIUM"
    /\ probe.protected_areas[2].center_lat = 8
    /\ ~probe.protected_areas[2].has_polygon
    /\ probe.first.threat_level = "CRITICAL"
    /\ probe.first.min_distance_km = 3

(***************************************************************************)
(* C30: with the hotspot, its confidence and the areas' geometry fixed,    *)
(* raising one protected area's priority (LOW < MEDIUM < HIGH < CRITICAL)  *)
(* never lowers the threat_level of assess_threat_level; in particular a   *)
(* CRITICAL-priority area yields a level at least as high as the same area *)
(* with HIGH priority.                                                     *)
(***************************************************************************)
C30_RaisedPriorityNeverLowersLevel ==
    (probe.calls = 2 /\ probe.variant = "raised")
        => ThreatRank(probe.second.threat_level) >= ThreatRank(probe.first.threat_level)

====
